---------------------------- MODULE Spec2Model ----------------------------
(***************************************************************************)
(* ConnectionManager of the JFrog VS-Code extension                        *)
(* (src/main/connect/connectionManager.ts): the credentials held in        *)
(* memory, the durable key-value state (globalState), the OS key store     *)
(* (keytar), the ambient proxy settings, and the asynchronous operations   *)
(* activate, connect, getComponents and getGoCenterModules.                *)
(*                                                                         *)
(* Every operation is an async function.  One action of the model is the   *)
(* code that runs between two suspension points (await) of one call; a     *)
(* resumption that touches nothing but the call's own locals is fused with *)
(* the code that follows it.                                               *)
(*                                                                         *)
(* JavaScript values: undefined, null and '' are all falsy and the code    *)
(* turns each of them into '' (x || ''), so the model writes "" for the    *)
(* three.                                                                  *)
(***************************************************************************)
EXTENDS Integers, Sequences, FiniteSets, TLC

VARIABLES
    _context,       \* TRUE once activate() has set the extension context
    _url,           \* in-memory credentials of the ConnectionManager
    _username,
    _password,
    globalState,    \* durable key-value state: key -> string ("" = undefined)
    vault,          \* OS key store: <<service, account>> -> password
    config,         \* ambient settings: section -> string ("" = undefined)
    task            \* the calls in flight: task id -> frame of the async call

vars == <<_context, _url, _username, _password, globalState, vault, config, task>>

memory == <<_url, _username, _password>>
stores == <<globalState, vault>>

----------------------------------------------------------------------------
(* Program constants *)

XRAY_USERNAME_KEY == "jfrog.xray.username"
XRAY_URL_KEY == "jfrog.xray.url"
SERVICE_ID == "com.jfrog.xray.vscode"
USER_AGENT == "jfrog-vscode-extension/version"

----------------------------------------------------------------------------
(* Input domains *)

\* The number of distinct passwords the user and the key store may hold
NumPasswords == 2

Digits == <<"1", "2", "3", "4">>

\* Two urls and two usernames chosen so that two different pairs have the
\* same concatenation: "https://x" \o "yz" = "https://xy" \o "z".
Urls == {"https://x", "https://xy"}
Usernames == {"yz", "z"}
Passwords == {"p" \o Digits[i] : i \in 1..NumPasswords}

\* What a prompt resolves to: a value the validator accepted, or "" when the
\* user dismissed the input box (undefined || '').
UrlAnswers == Urls \cup {""}
UsernameAnswers == Usernames \cup {""}
PasswordAnswers == Passwords \cup {""}

\* The task ids; the sequential specification runs every call on MainTask.
Tasks == {"t1", "t2"}
MainTask == "t1"

----------------------------------------------------------------------------
(* JavaScript helpers *)

Truthy(s) == s # ""

\* x || d
OrElse(x, d) == IF Truthy(x) THEN x ELSE d

EmptyObject == [f \in {} |-> ""]

\* o[f] = v on a plain object
SetField(o, f, v) == [g \in (DOMAIN o) \cup {f} |-> IF g = f THEN v ELSE o[g]]

\* crypto.createHash('sha256').update(s).digest('hex'): a one-way digest,
\* injective on its input and never equal to a raw input string.
Sha256Hex(s) == "sha256(" \o s \o ")"

----------------------------------------------------------------------------
(* External collaborators: globalState (Memento), keytar, workspace config *)

\* Memento.get(key): undefined when the key is absent
GlobalStateGet(key) == IF key \in DOMAIN globalState THEN globalState[key] ELSE ""

\* Memento.update(key, value)
GlobalStateUpdate(gs, key, value) ==
    [k \in (DOMAIN gs) \cup {key} |-> IF k = key THEN value ELSE gs[k]]

\* keytar.getPassword(service, account): null when there is no entry
KeytarGetPassword(service, account) ==
    IF <<service, account>> \in DOMAIN vault THEN vault[<<service, account>>] ELSE ""

\* keytar.setPassword(service, account, password)
KeytarSetPassword(v, service, account, password) ==
    [k \in (DOMAIN v) \cup {<<service, account>>} |->
        IF k = <<service, account>> THEN password ELSE v[k]]

\* vscode.workspace.getConfiguration().get(section, defaultValue)
ConfigGet(section, defaultValue) ==
    IF section \in DOMAIN config /\ config[section] # "" THEN config[section]
    ELSE defaultValue

----------------------------------------------------------------------------
(* new URL(s) of Node's 'url' module, on the proxy settings of the model *)

ProxyUrls == {"http://proxy:8080", "http://proxy", "http://proxy:80", "proxy:8080", "proxy"}

\* new URL(s) throws TypeError [ERR_INVALID_URL] on a string with no scheme
UrlIsValid(s) == s # "proxy"

\* protocol keeps the colon; host is hostname[:port]; port is '' when the
\* url names none or names the scheme's default port (80 for http:); a
\* string with no "//" after its first colon is a scheme and a path, with
\* an empty host
UrlParse(s) ==
    CASE s = "http://proxy:8080" -> [protocol |-> "http:", host |-> "proxy:8080", port |-> "8080"]
      [] s = "http://proxy"      -> [protocol |-> "http:", host |-> "proxy", port |-> ""]
      [] s = "http://proxy:80"   -> [protocol |-> "http:", host |-> "proxy", port |-> ""]
      [] s = "proxy:8080"        -> [protocol |-> "proxy:", host |-> "", port |-> ""]

\* unary plus on a string of decimal digits
ToNumber(s) ==
    CASE s = "8080" -> 8080
      [] s = "80"   -> 80

----------------------------------------------------------------------------
(* ConnectionManager: pure parts *)

\* Mutant: the test is inverted
areCredentialsSetInverted == ~(Truthy(_url) /\ Truthy(_username) /\ Truthy(_password))

areCredentialsSet == Truthy(_url) /\ Truthy(_username) /\ Truthy(_password)

\* Mutant: the key store is keyed by the raw username
createAccountIdRaw(url, username) == username

createAccountId(url, username) == Sha256Hex(url \o username)

\* The call storeUrl makes
storeUrl == [call |-> "globalState.update", key |-> XRAY_URL_KEY, value |-> _url]

\* Mutant: the username is stored under the url key
storeUsernameUnderUrlKey ==
    [call |-> "globalState.update", key |-> XRAY_URL_KEY, value |-> _username]

\* Mutant: the password is stored in durable storage in place of the username
storeUsernameWritesPassword ==
    [call |-> "globalState.update", key |-> XRAY_USERNAME_KEY, value |-> _password]

\* The call storeUsername makes
storeUsername == [call |-> "globalState.update", key |-> XRAY_USERNAME_KEY, value |-> _username]

\* The call storePassword makes
storePassword ==
    [call |-> "keytar.setPassword", service |-> SERVICE_ID,
     account |-> createAccountId(_url, _username), password |-> _password]

\* Mutant: the result of checkConnection is ignored
ConnectionRefusedNever(ok) == FALSE

\* connect gives up when checkConnection resolved to ok = false
ConnectionRefused(ok) == ~ok

\* getProxyConfig throws when new URL(httpProxy) does
getProxyConfigThrows ==
    /\ ConfigGet("http.proxySupport", "override") # "off"
    /\ Truthy(ConfigGet("http.proxy", ""))
    /\ ~UrlIsValid(ConfigGet("http.proxy", ""))

\* Mutant: the port is set whatever the url names
getProxyConfigPortAlways ==
    IF ConfigGet("http.proxySupport", "override") = "off"
    THEN [isFalse |-> TRUE, config |-> EmptyObject]
    ELSE LET httpProxy == ConfigGet("http.proxy", "")
             proxyUri == UrlParse(httpProxy)
         IN [isFalse |-> FALSE,
             config |-> IF Truthy(httpProxy)
                        THEN SetField(SetField(SetField(EmptyObject, "protocol", proxyUri.protocol),
                                               "host", proxyUri.host),
                                      "port", IF Truthy(proxyUri.port)
                                              THEN ToNumber(proxyUri.port) ELSE 0)
                        ELSE EmptyObject]

\* IProxyConfig | boolean, as a tagged value: [isFalse |-> TRUE] is the
\* boolean false, [isFalse |-> FALSE, config |-> o] is the object o.
getProxyConfig ==
    IF ConfigGet("http.proxySupport", "override") = "off"
    THEN [isFalse |-> TRUE, config |-> EmptyObject]
    ELSE LET httpProxy == ConfigGet("http.proxy", "")
             proxyUri == UrlParse(httpProxy)
             withHost == SetField(SetField(EmptyObject, "protocol", proxyUri.protocol),
                                  "host", proxyUri.host)
         IN [isFalse |-> FALSE,
             config |-> IF Truthy(httpProxy)
                        THEN IF Truthy(proxyUri.port)
                             THEN SetField(withHost, "port", ToNumber(proxyUri.port))
                             ELSE withHost
                        ELSE EmptyObject]

addUserAgentHeader(clientConfig) ==
    [clientConfig EXCEPT !.headers = SetField(@, "User-Agent", USER_AGENT)]

\* Mutant: the header is added only when the proxy config names a host
addProxyAuthHeaderNeedsHost(clientConfig) ==
    IF /\ ~clientConfig.proxy.isFalse
       /\ "host" \in DOMAIN clientConfig.proxy.config
       /\ Truthy(ConfigGet("http.proxyAuthorization", ""))
    THEN [clientConfig EXCEPT !.headers =
              SetField(@, "Proxy-Authorization", ConfigGet("http.proxyAuthorization", ""))]
    ELSE clientConfig

addProxyAuthHeader(clientConfig) ==
    IF ~clientConfig.proxy.isFalse /\ Truthy(ConfigGet("http.proxyAuthorization", ""))
    THEN [clientConfig EXCEPT !.headers =
              SetField(@, "Proxy-Authorization", ConfigGet("http.proxyAuthorization", ""))]
    ELSE clientConfig

\* The IClientConfig handed to new XrayClient(...)
createXrayClient ==
    addProxyAuthHeader(addUserAgentHeader(
        [serverUrl |-> _url, username |-> _username, password |-> _password,
         headers |-> EmptyObject, proxy |-> getProxyConfig]))

\* Mutant: the metadata client is given the primary credentials
createGoCenterClientWithCredentials ==
    addProxyAuthHeader(addUserAgentHeader(
        [serverUrl |-> _url, username |-> _username, password |-> _password,
         headers |-> EmptyObject, proxy |-> getProxyConfig]))

\* The IClientConfig handed to new GoCenterClient(...)
createGoCenterClient ==
    addProxyAuthHeader(addUserAgentHeader(
        [headers |-> EmptyObject, proxy |-> getProxyConfig]))


----------------------------------------------------------------------------
(* Frames of the async calls *)

NoClient == [none |-> TRUE]

IdleFrame ==
    [op |-> "none", pc |-> "idle", url |-> "", username |-> "", password |-> "",
     client |-> NoClient, ret |-> "none", trace |-> << >>]

NewFrame(op) == [IdleFrame EXCEPT !.op = op]

\* A new call starts on a task that runs none
Callable(t) == task[t].pc \in {"idle", "done"}

Return(f, value) == [f EXCEPT !.pc = "done", !.ret = value]

\* The promise of the call rejects with the error
Throw(f, error) == [f EXCEPT !.pc = "done", !.ret = error]

Called(f, event) == [f EXCEPT !.trace = Append(@, event)]

Last(s) == s[Len(s)]

\* Mutant: every caller prompts
PromptArgAlways(op) == TRUE

\* The prompt argument each caller passes to populateCredentials
PromptArg(op) == op = "connect"

----------------------------------------------------------------------------
(* populateCredentials and the retrieve* functions, as frame transformers *)

\* Mutant: activate goes on to store what it populated
AfterPopulatePersist(f, ok) ==
    CASE f.op = "activate" -> IF ok THEN [f EXCEPT !.pc = "storeUrl"]
                              ELSE Return(f, "this")
      [] f.op = "connect" -> IF ok THEN [f EXCEPT !.pc = "withProgress"]
                             ELSE Return(f, "false")
      [] f.op = "getComponents" -> [f EXCEPT !.pc = "populated"]

\* Mutant: getComponents gives up when populateCredentials returned false
AfterPopulateGiveUp(f, ok) ==
    CASE f.op = "activate" -> Return(f, "this")
      [] f.op = "connect" -> IF ok THEN [f EXCEPT !.pc = "withProgress"]
                             ELSE Return(f, "false")
      [] f.op = "getComponents" -> IF ok THEN [f EXCEPT !.pc = "populated"]
                                   ELSE Return(f, "false")

\* Mutant: connect goes on whatever populateCredentials returned
AfterPopulateIgnored(f, ok) ==
    CASE f.op = "activate" -> Return(f, "this")
      [] f.op = "connect" -> [f EXCEPT !.pc = "withProgress"]
      [] f.op = "getComponents" -> [f EXCEPT !.pc = "populated"]

\* populateCredentials has returned ok to its caller
AfterPopulate(f, ok) ==
    CASE f.op = "activate" -> Return(f, "this")
      [] f.op = "connect" -> IF ok THEN [f EXCEPT !.pc = "withProgress"]
                             ELSE Return(f, "false")
      [] f.op = "getComponents" -> [f EXCEPT !.pc = "populated"]

\* retrieveUrl to its first await: the read of the url key
RetrieveUrlStart(f) ==
    Called([f EXCEPT !.url = OrElse(GlobalStateGet(XRAY_URL_KEY), ""),
                     !.pc = "retrieveUrl"],
           [call |-> "globalState.get", key |-> XRAY_URL_KEY])

\* populateCredentials is called: this._context.globalState throws a
\* TypeError while activate() has not set the context
PopulateStart(f) == IF _context THEN RetrieveUrlStart(f) ELSE Throw(f, "TypeError")

\* retrieveUsername to its first await: the read of the username key
RetrieveUsernameStart(f) ==
    Called([f EXCEPT !.username = OrElse(GlobalStateGet(XRAY_USERNAME_KEY), ""),
                     !.pc = "retrieveUsername"],
           [call |-> "globalState.get", key |-> XRAY_USERNAME_KEY])

\* Mutant: the lookup key is built from the username followed by the url
RetrievePasswordStartSwapped(f) ==
    Called([f EXCEPT !.pc = "retrievePassword"],
           [call |-> "keytar.getPassword", service |-> SERVICE_ID,
            account |-> createAccountId(f.username, f.url)])

\* retrievePassword to its first await: keytar.getPassword is issued
RetrievePasswordStart(f) ==
    Called([f EXCEPT !.pc = "retrievePassword"],
           [call |-> "keytar.getPassword", service |-> SERVICE_ID,
            account |-> createAccountId(f.url, f.username)])

\* Mutant: the username stage starts whatever the url stage yielded
UrlResolvedContinue(f, url) == RetrieveUsernameStart([f EXCEPT !.url = url])

\* retrieveUrl has returned url to populateCredentials
UrlResolved(f, url) ==
    IF ~Truthy(url) THEN AfterPopulate([f EXCEPT !.url = url], FALSE)
    ELSE RetrieveUsernameStart([f EXCEPT !.url = url])

\* retrieveUsername has returned username to populateCredentials
UsernameResolved(f, username) ==
    IF ~Truthy(username) THEN AfterPopulate([f EXCEPT !.username = username], FALSE)
    ELSE RetrievePasswordStart([f EXCEPT !.username = username])

\* createXrayClient, then the summary request is issued
RequestSummary(f) ==
    IF getProxyConfigThrows THEN Throw(f, "TypeError")
    ELSE Called([f EXCEPT !.client = createXrayClient, !.pc = "summary"],
                [call |-> "summary.component", client |-> createXrayClient])

----------------------------------------------------------------------------
(* Calls *)

Activate(t) ==
    /\ Callable(t)
    /\ _context' = TRUE
    /\ task' = [task EXCEPT ![t] = RetrieveUrlStart(NewFrame("activate"))]
    /\ UNCHANGED <<memory, stores, config>>

Connect(t) ==
    /\ Callable(t)
    /\ task' = [task EXCEPT ![t] = PopulateStart(NewFrame("connect"))]
    /\ UNCHANGED <<_context, memory, stores, config>>

GetComponents(t) ==
    /\ Callable(t)
    /\ task' = [task EXCEPT ![t] =
                   IF areCredentialsSet THEN RequestSummary(NewFrame("getComponents"))
                   ELSE PopulateStart(NewFrame("getComponents"))]
    /\ UNCHANGED <<_context, memory, stores, config>>

GetGoCenterModules(t) ==
    /\ Callable(t)
    /\ task' = [task EXCEPT ![t] =
                   LET f == NewFrame("getGoCenterModules") IN
                   IF getProxyConfigThrows THEN Throw(f, "TypeError")
                   ELSE Called([f EXCEPT !.client = createGoCenterClient, !.pc = "metadata"],
                               [call |-> "getMetadataForModules",
                                client |-> createGoCenterClient])]
    /\ UNCHANGED <<_context, memory, stores, config>>

----------------------------------------------------------------------------
(* Resumptions of populateCredentials *)

\* retrieveUrl resumes after the read: the prompt, or the stored value
RetrieveUrlResume(t) ==
    LET f == task[t] IN
    /\ f.pc = "retrieveUrl"
    /\ task' = [task EXCEPT ![t] =
                   IF PromptArg(f.op)
                   THEN Called([f EXCEPT !.pc = "promptUrl"],
                               [call |-> "showInputBox", prompt |-> "Enter Xray url",
                                value |-> IF Truthy(_url) THEN _url ELSE "https://"])
                   ELSE UrlResolved(f, f.url)]
    /\ UNCHANGED <<_context, memory, stores, config>>

\* the url prompt resolves to answer
UrlEntered(t, answer) ==
    LET f == task[t] IN
    /\ f.pc = "promptUrl"
    /\ task' = [task EXCEPT ![t] = UrlResolved(f, OrElse(answer, ""))]
    /\ UNCHANGED <<_context, memory, stores, config>>

RetrieveUsernameResume(t) ==
    LET f == task[t] IN
    /\ f.pc = "retrieveUsername"
    /\ task' = [task EXCEPT ![t] =
                   IF PromptArg(f.op)
                   THEN Called([f EXCEPT !.pc = "promptUsername"],
                               [call |-> "showInputBox", prompt |-> "Enter Xray username",
                                value |-> _username])
                   ELSE UsernameResolved(f, f.username)]
    /\ UNCHANGED <<_context, memory, stores, config>>

UsernameEntered(t, answer) ==
    LET f == task[t] IN
    /\ f.pc = "promptUsername"
    /\ task' = [task EXCEPT ![t] = UsernameResolved(f, OrElse(answer, ""))]
    /\ UNCHANGED <<_context, memory, stores, config>>

\* Mutant: url and username are assigned before the password is checked
PasswordResolvedEarly(t, f, password) ==
    /\ _url' = f.url
    /\ _username' = f.username
    /\ _password' = IF Truthy(password) THEN password ELSE _password
    /\ task' = [task EXCEPT ![t] =
                   AfterPopulate([f EXCEPT !.password = password], Truthy(password))]

\* Mutant: the three fields are assigned before the password is checked
PasswordResolvedUnchecked(t, f, password) ==
    /\ _url' = f.url
    /\ _username' = f.username
    /\ _password' = password
    /\ task' = [task EXCEPT ![t] =
                   AfterPopulate([f EXCEPT !.password = password], Truthy(password))]

\* Mutant: only the password is assigned
PasswordResolvedPasswordOnly(t, f, password) ==
    IF ~Truthy(password)
    THEN /\ task' = [task EXCEPT ![t] = AfterPopulate([f EXCEPT !.password = password], FALSE)]
         /\ UNCHANGED memory
    ELSE /\ _password' = password
         /\ UNCHANGED <<_url, _username>>
         /\ task' = [task EXCEPT ![t] = AfterPopulate([f EXCEPT !.password = password], TRUE)]

\* Mutant: the resolved credentials stay local to populateCredentials
PasswordResolvedLocal(t, f, password) ==
    /\ UNCHANGED memory
    /\ task' = [task EXCEPT ![t] =
                   AfterPopulate([f EXCEPT !.password = password], Truthy(password))]

\* retrievePassword has returned password: the last check of
\* populateCredentials and the assignment of the three fields
PasswordResolved(t, f, password) ==
    IF ~Truthy(password)
    THEN /\ task' = [task EXCEPT ![t] = AfterPopulate([f EXCEPT !.password = password], FALSE)]
         /\ UNCHANGED memory
    ELSE /\ _url' = f.url
         /\ _username' = f.username
         /\ _password' = password
         /\ task' = [task EXCEPT ![t] = AfterPopulate([f EXCEPT !.password = password], TRUE)]

\* keytar.getPassword resolves: the prompt, or the stored password
RetrievePasswordResume(t) ==
    LET f == task[t]
        stored == OrElse(KeytarGetPassword(Last(f.trace).service, Last(f.trace).account), "")
    IN
    /\ f.pc = "retrievePassword"
    /\ IF PromptArg(f.op)
       THEN /\ task' = [task EXCEPT ![t] =
                           Called([f EXCEPT !.password = stored, !.pc = "promptPassword"],
                                  [call |-> "showInputBox", prompt |-> "Enter Xray password",
                                   value |-> ""])]
            /\ UNCHANGED memory
       ELSE PasswordResolved(t, f, stored)
    /\ UNCHANGED <<_context, stores, config>>

PasswordEntered(t, answer) ==
    LET f == task[t] IN
    /\ f.pc = "promptPassword"
    /\ PasswordResolved(t, f, OrElse(answer, ""))
    /\ UNCHANGED <<_context, stores, config>>

----------------------------------------------------------------------------
(* Resumptions of connect *)

\* the withProgress callback starts: the client is built and checked
WithProgress(t) ==
    LET f == task[t] IN
    /\ f.pc = "withProgress"
    /\ task' = [task EXCEPT ![t] =
                   IF getProxyConfigThrows THEN Throw(f, "TypeError")
                   ELSE Called([f EXCEPT !.client = createXrayClient, !.pc = "checkConnection"],
                               [call |-> "checkConnection", client |-> createXrayClient])]
    /\ UNCHANGED <<_context, memory, stores, config>>

\* checkConnection resolves to ok; when ok, storeUrl runs to its await
CheckConnectionReturn(t, ok) ==
    LET f == Called(task[t], [call |-> "checkConnection.return", result |-> ok]) IN
    /\ task[t].pc = "checkConnection"
    /\ IF ConnectionRefused(ok)
       THEN /\ task' = [task EXCEPT ![t] = Return(f, "false")]
            /\ UNCHANGED globalState
       ELSE /\ globalState' = GlobalStateUpdate(globalState, storeUrl.key, storeUrl.value)
            /\ task' = [task EXCEPT ![t] = Called([f EXCEPT !.pc = "storeUrl"], storeUrl)]
    /\ UNCHANGED <<_context, memory, vault, config>>

\* storeUrl has returned; storeUsername runs to its await
StoreUrlReturn(t) ==
    LET f == task[t] IN
    /\ f.pc = "storeUrl"
    /\ globalState' = GlobalStateUpdate(globalState, storeUsername.key, storeUsername.value)
    /\ task' = [task EXCEPT ![t] = Called([f EXCEPT !.pc = "storeUsername"], storeUsername)]
    /\ UNCHANGED <<_context, memory, vault, config>>

\* storeUsername has returned; storePassword issues keytar.setPassword
StoreUsernameReturn(t) ==
    LET f == task[t] IN
    /\ f.pc = "storeUsername"
    /\ task' = [task EXCEPT ![t] = Called([f EXCEPT !.pc = "storePassword"], storePassword)]
    /\ UNCHANGED <<_context, memory, stores, config>>

\* keytar.setPassword resolves: the entry is in the key store, connect
\* returns true
StorePasswordReturn(t) ==
    LET f == task[t]
        set == Last(f.trace)
    IN
    /\ f.pc = "storePassword"
    /\ vault' = KeytarSetPassword(vault, set.service, set.account, set.password)
    /\ task' = [task EXCEPT ![t] = Return(f, "true")]
    /\ UNCHANGED <<_context, memory, globalState, config>>

----------------------------------------------------------------------------
(* Resumptions of getComponents and getGoCenterModules *)

\* populateCredentials(false) has returned to getComponents
Populated(t) ==
    LET f == task[t] IN
    /\ f.pc = "populated"
    /\ task' = [task EXCEPT ![t] = RequestSummary(f)]
    /\ UNCHANGED <<_context, memory, stores, config>>

\* the summary request resolves (ok) or rejects
SummaryReturn(t, ok) ==
    LET f == task[t] IN
    /\ f.pc = "summary"
    /\ task' = [task EXCEPT ![t] = IF ok THEN Return(f, "artifacts") ELSE Throw(f, "Error")]
    /\ UNCHANGED <<_context, memory, stores, config>>

\* the metadata request resolves (ok) or rejects
MetadataReturn(t, ok) ==
    LET f == task[t] IN
    /\ f.pc = "metadata"
    /\ task' = [task EXCEPT ![t] =
                   IF ok THEN Return(f, "components_metadata") ELSE Throw(f, "Error")]
    /\ UNCHANGED <<_context, memory, stores, config>>

----------------------------------------------------------------------------
(* The window reloads: a new ConnectionManager over the same stores *)

Restart ==
    /\ \A t \in Tasks : Callable(t)
    /\ _context' = FALSE
    /\ _url' = ""
    /\ _username' = ""
    /\ _password' = ""
    /\ task' = [t \in Tasks |-> IdleFrame]
    /\ UNCHANGED <<stores, config>>

----------------------------------------------------------------------------
(* Specifications *)

VaultKeys == {<<SERVICE_ID, createAccountId(u, n)>> : u \in Urls, n \in Usernames}

\* What earlier sessions may have left in the stores
GlobalStates ==
    {GlobalStateUpdate(GlobalStateUpdate(EmptyObject, XRAY_URL_KEY, u), XRAY_USERNAME_KEY, n) :
        u \in UrlAnswers, n \in UsernameAnswers}
Vaults == UNION {[S -> Passwords] : S \in SUBSET VaultKeys}

Settings(proxySupport, proxy, proxyAuthorization) ==
    SetField(SetField(SetField(EmptyObject, "http.proxySupport", proxySupport),
                      "http.proxy", proxy),
             "http.proxyAuthorization", proxyAuthorization)

\* The settings of the sessions of Spec: none set, and an authenticated proxy
SessionConfigs == {Settings("", "", ""), Settings("on", "http://proxy:8080", "Basic cHJveHk=")}

Init ==
    /\ _context = FALSE
    /\ _url = ""
    /\ _username = ""
    /\ _password = ""
    /\ globalState \in GlobalStates
    /\ vault \in Vaults
    /\ config \in SessionConfigs
    /\ task = [t \in Tasks |-> IdleFrame]

Step(t) ==
    \/ Activate(t)
    \/ Connect(t)
    \/ GetComponents(t)
    \/ GetGoCenterModules(t)
    \/ RetrieveUrlResume(t)
    \/ \E answer \in UrlAnswers : UrlEntered(t, answer)
    \/ RetrieveUsernameResume(t)
    \/ \E answer \in UsernameAnswers : UsernameEntered(t, answer)
    \/ RetrievePasswordResume(t)
    \/ \E answer \in PasswordAnswers : PasswordEntered(t, answer)
    \/ WithProgress(t)
    \/ \E ok \in BOOLEAN : CheckConnectionReturn(t, ok)
    \/ StoreUrlReturn(t)
    \/ StoreUsernameReturn(t)
    \/ StorePasswordReturn(t)
    \/ Populated(t)
    \/ \E ok \in BOOLEAN : SummaryReturn(t, ok)
    \/ \E ok \in BOOLEAN : MetadataReturn(t, ok)

\* A single logical flow: every call is awaited before the next one starts
Next == Step(MainTask) \/ Restart

Spec == Init /\ [][Next]_vars

----------------------------------------------------------------------------
(* Interleaved calls after activation: each task makes one call, and the
   calls of the two tasks interleave at their awaits *)

\* The stores an earlier session left, nothing or one complete triple, and
\* the in-memory credentials activate() populated from them
Activated ==
    { [globalState |-> GlobalStateUpdate(GlobalStateUpdate(EmptyObject, XRAY_URL_KEY, ""),
                                         XRAY_USERNAME_KEY, ""),
       vault |-> << >>,
       memory |-> <<"", "", "">>] }
    \cup
    { [globalState |-> GlobalStateUpdate(GlobalStateUpdate(EmptyObject, XRAY_URL_KEY, "https://x"),
                                         XRAY_USERNAME_KEY, "z"),
       vault |-> KeytarSetPassword(<< >>, SERVICE_ID, createAccountId("https://x", "z"), "p1"),
       memory |-> <<"https://x", "z", "p1">>] }

InitAsync ==
    /\ _context = TRUE
    /\ \E a \in Activated :
           /\ _url = a.memory[1]
           /\ _username = a.memory[2]
           /\ _password = a.memory[3]
           /\ globalState = a.globalState
           /\ vault = a.vault
    /\ config = Settings("", "", "")
    /\ task = [t \in Tasks |-> IdleFrame]

\* A task that has made no call yet
Fresh(t) == task[t].pc = "idle"

NextAsync ==
    \E t \in Tasks :
        \/ Fresh(t) /\ Activate(t)
        \/ Fresh(t) /\ Connect(t)
        \/ Fresh(t) /\ GetComponents(t)
        \/ Fresh(t) /\ GetGoCenterModules(t)
        \/ RetrieveUrlResume(t)
        \/ \E answer \in UrlAnswers : UrlEntered(t, answer)
        \/ RetrieveUsernameResume(t)
        \/ \E answer \in UsernameAnswers : UsernameEntered(t, answer)
        \/ RetrievePasswordResume(t)
        \/ \E answer \in PasswordAnswers : PasswordEntered(t, answer)
        \/ WithProgress(t)
        \/ \E ok \in BOOLEAN : CheckConnectionReturn(t, ok)
        \/ StoreUrlReturn(t)
        \/ StoreUsernameReturn(t)
        \/ StorePasswordReturn(t)
        \/ Populated(t)
        \/ \E ok \in BOOLEAN : SummaryReturn(t, ok)
        \/ \E ok \in BOOLEAN : MetadataReturn(t, ok)

SpecAsync == InitAsync /\ [][NextAsync]_vars

----------------------------------------------------------------------------
(* Sessions without connect(), under every ambient setting *)

ProxySupports == {"", "off", "on"}
ProxyAuthorizations == {"", "Basic cHJveHk="}

AllSettings ==
    {Settings(proxySupport, proxy, proxyAuthorization) :
        proxySupport \in ProxySupports,
        proxy \in ProxyUrls \cup {""},
        proxyAuthorization \in ProxyAuthorizations}

\* Key stores with at most one entry
SmallVaults == {v \in Vaults : Cardinality(DOMAIN v) <= 1}

InitSettings ==
    /\ _context = FALSE
    /\ _url = ""
    /\ _username = ""
    /\ _password = ""
    /\ globalState \in GlobalStates
    /\ vault \in SmallVaults
    /\ config \in AllSettings
    /\ task = [t \in Tasks |-> IdleFrame]

NextSettings ==
    \/ Activate(MainTask)
    \/ GetComponents(MainTask)
    \/ GetGoCenterModules(MainTask)
    \/ RetrieveUrlResume(MainTask)
    \/ RetrieveUsernameResume(MainTask)
    \/ RetrievePasswordResume(MainTask)
    \/ Populated(MainTask)
    \/ \E ok \in BOOLEAN : SummaryReturn(MainTask, ok)
    \/ \E ok \in BOOLEAN : MetadataReturn(MainTask, ok)
    \/ Restart

SpecSettings == InitSettings /\ [][NextSettings]_vars


----------------------------------------------------------------------------
(* Vocabulary of the properties *)

\* The program counters inside populateCredentials
PopulatePcs ==
    {"retrieveUrl", "promptUrl", "retrieveUsername", "promptUsername",
     "retrievePassword", "promptPassword"}

\* The calls of one kind a frame has made, in order
CallsOf(f, names) == SelectSeq(f.trace, LAMBDA e : e.call \in names)

\* The writes a frame has made to durable storage and to the key store
Writes(f) == CallsOf(f, {"globalState.update", "keytar.setPassword"})

\* checkConnection has resolved to ok in this call
CheckResult(f, ok) ==
    \E i \in 1..Len(f.trace) :
        f.trace[i].call = "checkConnection.return" /\ f.trace[i].result = ok

\* The three locals of populateCredentials are non-empty
AllResolved(f) == Truthy(f.url) /\ Truthy(f.username) /\ Truthy(f.password)

----------------------------------------------------------------------------
(* Properties *)

\* C1: when connect() has populated the credentials and checkConnection
\* resolves to false, connect() returns false and has called neither
\* globalState.update nor keytar.setPassword; no step of a connect() whose
\* check has not succeeded changes durable storage or the key store.
C1_RefusedConnectWritesNothing ==
    [][\A t \in Tasks :
         LET f == task[t]
             g == task'[t]
         IN /\ (g.op = "connect" /\ CheckResult(g, FALSE))
                  => (g.pc = "done" /\ g.ret = "false" /\ Writes(g) = << >>)
            /\ (g # f /\ g.op = "connect" /\ ~CheckResult(g, TRUE))
                  => UNCHANGED stores]_vars

\* C1 witness: a connect() refused by the server has returned, and the url
\* it entered is not the one in durable storage.
C1_Witness ==
    \E t \in Tasks :
        /\ task[t].op = "connect" /\ task[t].pc = "done"
        /\ CheckResult(task[t], FALSE)
        /\ GlobalStateGet(XRAY_URL_KEY) # task[t].url

\* C2: when connect() has populated the credentials and checkConnection
\* resolves to true, connect() makes exactly three writes, in the order
\* url (durable storage), username (durable storage), password (key store),
\* of the values entered at its prompts, which are the values of the client
\* it validated, and then returns true with the stores holding them.
C2_AcceptedConnectPersists ==
    \A t \in Tasks :
        LET f == task[t]
            expected ==
                << [call |-> "globalState.update", key |-> XRAY_URL_KEY, value |-> f.url],
                   [call |-> "globalState.update", key |-> XRAY_USERNAME_KEY,
                    value |-> f.username],
                   [call |-> "keytar.setPassword", service |-> SERVICE_ID,
                    account |-> Sha256Hex(f.url \o f.username), password |-> f.password] >>
            written == CASE f.pc = "storeUrl" -> 1
                         [] f.pc = "storeUsername" -> 2
                         [] OTHER -> 3
        IN (f.op = "connect" /\ CheckResult(f, TRUE)) =>
              /\ f.pc \in {"storeUrl", "storeUsername", "storePassword", "done"}
              /\ AllResolved(f)
              /\ Len(CallsOf(f, {"showInputBox"})) = 3
              /\ f.client.serverUrl = f.url
              /\ f.client.username = f.username
              /\ f.client.password = f.password
              /\ Writes(f) = SubSeq(expected, 1, written)
              /\ f.pc = "done" =>
                    /\ f.ret = "true"
                    /\ GlobalStateGet(XRAY_URL_KEY) = f.url
                    /\ GlobalStateGet(XRAY_USERNAME_KEY) = f.username
                    /\ KeytarGetPassword(SERVICE_ID, Sha256Hex(f.url \o f.username)) = f.password

\* C2 witness: a connect() accepted by the server has returned true.
C2_Witness ==
    \E t \in Tasks :
        /\ task[t].op = "connect" /\ task[t].pc = "done" /\ task[t].ret = "true"
        /\ Len(Writes(task[t])) = 3

\* C3: every write to durable storage or to the key store is made by a
\* connect() whose checkConnection has resolved to true; activate,
\* getComponents, getGoCenterModules and populateCredentials write nothing.
C3_WritesOnlyAfterValidation ==
    [][/\ \A t \in Tasks :
            Writes(task'[t]) # << >>
               => (task'[t].op = "connect" /\ CheckResult(task'[t], TRUE))
       /\ stores' # stores
            => \E t \in Tasks :
                  /\ task'[t] # task[t]
                  /\ task'[t].op = "connect"
                  /\ CheckResult(task'[t], TRUE)
                  /\ Writes(task'[t]) # << >>]_vars

\* C3 witness: activate() has populated the credentials from the stores and
\* returned without writing.
C3_Witness ==
    \E t \in Tasks :
        /\ task[t].op = "activate" /\ task[t].pc = "done"
        /\ AllResolved(task[t])
        /\ <<_url, _username, _password>> = <<task[t].url, task[t].username, task[t].password>>
        /\ Writes(task[t]) = << >>

\* C4 (as claimed): after a connect() in which the user entered a url, a
\* username and a password and checkConnection resolved to false, connect()
\* has returned false and areCredentialsSet() is false.
C4_Original ==
    \A t \in Tasks :
        (task[t].op = "connect" /\ task[t].pc = "done" /\ CheckResult(task[t], FALSE))
           => (task[t].ret = "false" /\ ~areCredentialsSet)

\* C4 (amended): after such a connect(), connect() has returned false and
\* areCredentialsSet() is true: the entered credentials stay in memory.
C4_RefusedConnectKeepsCredentials ==
    \A t \in Tasks :
        (task[t].op = "connect" /\ task[t].pc = "done" /\ CheckResult(task[t], FALSE))
           => (task[t].ret = "false" /\ AllResolved(task[t]) /\ areCredentialsSet)

\* C4 witness: a refused connect() has returned false.
C4_Witness ==
    \E t \in Tasks :
        /\ task[t].op = "connect" /\ task[t].pc = "done" /\ task[t].ret = "false"
        /\ CheckResult(task[t], FALSE)
        /\ AllResolved(task[t])

\* C5: after a connect() whose check failed, the in-memory credentials are
\* the three values entered; they change only when a later populate
\* succeeds or the session ends; and a getComponents() that follows builds
\* its client from them and issues its request without populating.
C5_RefusedCredentialsStayInMemory ==
    [][/\ \A t \in Tasks :
            LET f == task[t]
                g == task'[t]
            IN /\ (g.op = "connect" /\ g.pc = "done" /\ CheckResult(g, FALSE))
                     => /\ <<_url', _username', _password'>> = <<g.url, g.username, g.password>>
                        /\ Truthy(_url') /\ Truthy(_username') /\ Truthy(_password')
               /\ (f.op = "connect" /\ f.pc = "done" /\ CheckResult(f, FALSE)
                   /\ g # f /\ g.op = "getComponents")
                     => /\ g.pc = "summary"
                        /\ g.trace = << [call |-> "summary.component", client |-> g.client] >>
                        /\ g.client.serverUrl = f.url
                        /\ g.client.username = f.username
                        /\ g.client.password = f.password
                        /\ UNCHANGED memory
       /\ memory' # memory
            => \/ \E t \in Tasks :
                     /\ task[t].pc \in {"retrievePassword", "promptPassword"}
                     /\ AllResolved(task'[t])
                     /\ <<_url', _username', _password'>>
                           = <<task'[t].url, task'[t].username, task'[t].password>>
               \/ /\ <<_url', _username', _password'>> = <<"", "", "">>
                  /\ ~_context'
                  /\ \A t \in Tasks : task'[t] = IdleFrame]_vars

\* C5 witness: nothing was ever persisted, yet getComponents has issued its
\* request, without populating, with the credentials held in memory.
C5_Witness ==
    \E t \in Tasks :
        /\ task[t].op = "getComponents" /\ task[t].pc = "summary"
        /\ Len(task[t].trace) = 1
        /\ task[t].client.serverUrl = _url
        /\ Truthy(_url)
        /\ GlobalStateGet(XRAY_URL_KEY) = ""

\* C6: a populateCredentials that returns false leaves the three in-memory
\* fields as they were: no step inside populateCredentials, and no step
\* that ends it with an empty url, username or password, changes them.  With
\* a stored url, no stored username and prompt = false, the populate ends
\* at the username stage, without a key store read, the fields unchanged.
C6_FailedPopulateAssignsNothing ==
    [][\A t \in Tasks :
         LET f == task[t]
             g == task'[t]
         IN /\ (g # f /\ g.pc \in PopulatePcs) => UNCHANGED memory
            /\ (f.pc \in PopulatePcs /\ g.pc \notin PopulatePcs /\ ~AllResolved(g))
                  => /\ UNCHANGED memory
                     /\ g.pc # "withProgress"
            /\ (f.pc = "retrieveUsername" /\ f.op \in {"activate", "getComponents"} /\ g # f
                /\ Truthy(GlobalStateGet(XRAY_URL_KEY))
                /\ ~Truthy(GlobalStateGet(XRAY_USERNAME_KEY)))
                  => /\ g.pc \notin PopulatePcs
                     /\ ~AllResolved(g)
                     /\ CallsOf(g, {"keytar.getPassword"}) = << >>
                     /\ UNCHANGED memory]_vars

\* C6 witness: activate() found a stored url and no stored username while
\* credentials were held in memory, and has returned.
C6_Witness ==
    \E t \in Tasks :
        /\ task[t].op = "activate" /\ task[t].pc = "done"
        /\ Len(task[t].trace) = 2
        /\ Truthy(task[t].url) /\ ~Truthy(task[t].username)
        /\ areCredentialsSet

\* The user dismissed the password prompt of this connect(), or left it empty
EmptyPasswordEntered(f) ==
    /\ f.op = "connect"
    /\ f.pc \notin PopulatePcs
    /\ Len(CallsOf(f, {"showInputBox"})) = 3
    /\ ~Truthy(f.password)

\* C7 (as claimed): after a populateCredentials(true) in which the user
\* supplied an empty password, areCredentialsSet() is false.
C7_Original ==
    \A t \in Tasks : EmptyPasswordEntered(task[t]) => ~areCredentialsSet

\* C7 (amended): a populateCredentials(true) in which the user supplies an
\* empty password returns false and leaves areCredentialsSet() as it was
\* before the call: false if no credentials were held, true if an earlier
\* activate or connect had populated them.
C7_EmptyPasswordKeepsCredentialsSet ==
    [][\A t \in Tasks :
         LET f == task[t]
             g == task'[t]
         IN /\ (g # f /\ g.op = "connect" /\ (g.pc \in PopulatePcs \/ EmptyPasswordEntered(g)))
                  => (areCredentialsSet' <=> areCredentialsSet)
            /\ EmptyPasswordEntered(g) => (g.pc = "done" /\ g.ret = "false")]_vars

\* C7 witness: the password prompt was left empty while credentials
\* populated earlier are held in memory.
C7_Witness ==
    \E t \in Tasks : EmptyPasswordEntered(task[t]) /\ areCredentialsSet

\* C8 (as claimed): in populateCredentials(true), with a url and a username
\* held in durable storage, the key store is read under the AccountId of
\* that stored pair, not of the pair entered at the prompts.
C8_Original ==
    \A t \in Tasks :
        (/\ task[t].op = "connect" /\ task[t].pc = "retrievePassword"
         /\ Truthy(GlobalStateGet(XRAY_URL_KEY)) /\ Truthy(GlobalStateGet(XRAY_USERNAME_KEY)))
           => Last(task[t].trace).account
                 = Sha256Hex(GlobalStateGet(XRAY_URL_KEY) \o GlobalStateGet(XRAY_USERNAME_KEY))

\* C8 (amended): the key store is read under the AccountId of the url and
\* username this populate resolved: those entered at the prompts when prompt
\* is true, those read from durable storage when prompt is false.  The key is
\* always the hash of url + username under SERVICE_ID, never a raw username.
C8_VaultReadKeyedByResolvedPair ==
    \A t \in Tasks :
        LET f == task[t]
            reads == CallsOf(f, {"keytar.getPassword"})
        IN /\ Len(reads) <= 1
           /\ f.pc = "retrievePassword" => Len(reads) = 1
           /\ Len(reads) = 1 =>
                 /\ reads[1].service = SERVICE_ID
                 /\ reads[1].account = Sha256Hex(f.url \o f.username)
                 /\ reads[1].account \notin Usernames
                 /\ Truthy(f.url) /\ Truthy(f.username)
                 /\ f.op \in {"activate", "getComponents"} =>
                       /\ f.url = GlobalStateGet(XRAY_URL_KEY)
                       /\ f.username = GlobalStateGet(XRAY_USERNAME_KEY)
                 /\ f.op = "connect" =>
                       Len(SelectSeq(SubSeq(f.trace, 1, 5),
                                     LAMBDA e : e.call = "showInputBox")) = 2

\* C8 witness: connect() reads the key store for an entered pair whose
\* AccountId is not that of the stored pair.
C8_Witness ==
    \E t \in Tasks :
        /\ task[t].op = "connect" /\ task[t].pc = "retrievePassword"
        /\ Truthy(GlobalStateGet(XRAY_URL_KEY)) /\ Truthy(GlobalStateGet(XRAY_USERNAME_KEY))
        /\ Last(task[t].trace).account
              # Sha256Hex(GlobalStateGet(XRAY_URL_KEY) \o GlobalStateGet(XRAY_USERNAME_KEY))

\* C9: populateCredentials(false) never prompts: no call of activate,
\* getComponents or getGoCenterModules calls showInputBox.
C9_NoPromptWithoutConnect ==
    \A t \in Tasks :
        task[t].op # "connect" => CallsOf(task[t], {"showInputBox"}) = << >>

\* C9 witness: getComponents() has run populateCredentials(false) to the
\* username stage and issued its request.
C9_Witness ==
    \E t \in Tasks :
        /\ task[t].op = "getComponents" /\ task[t].pc = "summary"
        /\ Len(CallsOf(task[t], {"globalState.get"})) = 2

\* The population of this connect() has failed
PopulationFailed(f) ==
    /\ f.op = "connect"
    /\ f.pc \notin PopulatePcs
    /\ f.trace # << >>
    /\ ~AllResolved(f)

\* C10: when the population of connect() fails, connect() returns false,
\* having built no client, called checkConnection never and written nothing.
C10_FailedPopulationStopsConnect ==
    [][\A t \in Tasks :
         LET g == task'[t]
         IN PopulationFailed(g) =>
               /\ g.pc = "done"
               /\ g.ret = "false"
               /\ g.client = NoClient
               /\ CallsOf(g, {"checkConnection", "checkConnection.return"}) = << >>
               /\ Writes(g) = << >>
               /\ Last(g.trace).call = "showInputBox"
               /\ (g # task[t] => UNCHANGED stores)]_vars

\* C10 witness: the username prompt of a connect() was dismissed.
C10_Witness ==
    \E t \in Tasks :
        /\ PopulationFailed(task[t])
        /\ Truthy(task[t].url) /\ ~Truthy(task[t].username)


\* The calls populateCredentials has made, each named by its stage
PopulateCalls(f) ==
    LET calls == CallsOf(f, {"globalState.get", "showInputBox", "keytar.getPassword"})
    IN [i \in 1..Len(calls) |->
           CASE calls[i].call = "globalState.get" -> <<"read", calls[i].key>>
             [] calls[i].call = "showInputBox" -> <<"prompt", calls[i].prompt>>
             [] calls[i].call = "keytar.getPassword" -> <<"read", SERVICE_ID>>]

\* The calls of a whole populateCredentials(prompt), in the order of the code
StagesInOrder(prompt) ==
    IF prompt
    THEN << <<"read", XRAY_URL_KEY>>, <<"prompt", "Enter Xray url">>,
            <<"read", XRAY_USERNAME_KEY>>, <<"prompt", "Enter Xray username">>,
            <<"read", SERVICE_ID>>, <<"prompt", "Enter Xray password">> >>
    ELSE << <<"read", XRAY_URL_KEY>>, <<"read", XRAY_USERNAME_KEY>>, <<"read", SERVICE_ID>> >>

\* C11: the stages of populateCredentials run in the order url, username,
\* password, one after the other: the calls made are a prefix of the calls
\* of the three stages in order; after an empty url no call of the username
\* or password stage is made, after an empty username none of the password
\* stage.
C11_StagesInOrder ==
    \A t \in Tasks :
        LET f == task[t]
            prompt == f.op = "connect"
            made == PopulateCalls(f)
            perStage == IF prompt THEN 2 ELSE 1
        IN f.op \in {"activate", "connect", "getComponents"} =>
              /\ Len(made) <= Len(StagesInOrder(prompt))
              /\ made = SubSeq(StagesInOrder(prompt), 1, Len(made))
              /\ (f.pc \notin {"retrieveUrl", "promptUrl"} /\ made # << >> /\ ~Truthy(f.url))
                    => Len(made) = perStage
              /\ (f.pc \notin {"retrieveUrl", "promptUrl", "retrieveUsername", "promptUsername"}
                  /\ made # << >> /\ Truthy(f.url) /\ ~Truthy(f.username))
                    => Len(made) = 2 * perStage

\* C11 witness: the url prompt of a connect() was dismissed while durable
\* storage holds a username.
C11_Witness ==
    \E t \in Tasks :
        /\ task[t].op = "connect" /\ task[t].pc = "done"
        /\ Len(task[t].trace) = 2
        /\ ~Truthy(task[t].url)
        /\ Truthy(GlobalStateGet(XRAY_USERNAME_KEY))


\* C12: the password is never written to durable storage: every
\* globalState.update writes the in-memory url under the url key or the
\* in-memory username under the username key, every keytar.setPassword
\* writes the in-memory password under (SERVICE_ID, AccountId), and durable
\* storage holds no password under any key.
C12_PasswordOnlyInVault ==
    /\ \A t \in Tasks :
          LET written == Writes(task[t])
          IN \A i \in 1..Len(written) :
                IF written[i].call = "globalState.update"
                THEN \/ written[i].key = XRAY_URL_KEY /\ written[i].value = _url
                     \/ written[i].key = XRAY_USERNAME_KEY /\ written[i].value = _username
                ELSE /\ written[i].service = SERVICE_ID
                     /\ written[i].account = Sha256Hex(_url \o _username)
                     /\ written[i].password = _password
    /\ DOMAIN globalState \subseteq {XRAY_URL_KEY, XRAY_USERNAME_KEY}
    /\ \A k \in DOMAIN globalState : globalState[k] \notin Passwords
    /\ \A k \in DOMAIN vault : k[1] = SERVICE_ID /\ k[2] \notin (Urls \cup Usernames)

\* C12 witness: connect() has written url and username to durable storage
\* and has issued the write of the password to the key store.
C12_Witness ==
    \E t \in Tasks :
        /\ task[t].op = "connect" /\ task[t].pc = "storePassword"
        /\ Last(task[t].trace).call = "keytar.setPassword"
        /\ Last(task[t].trace).password = _password
        /\ GlobalStateGet(XRAY_USERNAME_KEY) = _username


\* The proxy-support toggle in force: 'override' unless the setting is set
ProxySupport == IF config["http.proxySupport"] = "" THEN "override" ELSE config["http.proxySupport"]

\* C13: a built client, primary or metadata, carries a Proxy-Authorization
\* header if and only if getProxyConfig did not return false (proxy support
\* is not 'off') and http.proxyAuthorization is non-empty, also when no
\* proxy url is set; the header's value is that setting.
C13_ProxyAuthHeaderIff ==
    \A t \in Tasks :
        LET f == task[t]
        IN f.client # NoClient =>
              /\ f.client.proxy.isFalse <=> (ProxySupport = "off")
              /\ ("Proxy-Authorization" \in DOMAIN f.client.headers)
                    <=> (ProxySupport # "off" /\ config["http.proxyAuthorization"] # "")
              /\ ("Proxy-Authorization" \in DOMAIN f.client.headers)
                    => f.client.headers["Proxy-Authorization"] = config["http.proxyAuthorization"]
              /\ f.client.headers["User-Agent"] = USER_AGENT

\* C13 witness: the primary client was built with an empty proxy config
\* object (proxy support on, no proxy url) and carries the header.
C13_Witness ==
    \E t \in Tasks :
        /\ task[t].op = "getComponents"
        /\ task[t].client # NoClient
        /\ config["http.proxySupport"] = "on"
        /\ config["http.proxy"] = ""
        /\ task[t].client.proxy.config = EmptyObject
        /\ "Proxy-Authorization" \in DOMAIN task[t].client.headers


\* The proxy urls that name a port other than their scheme's default
UrlsNamingPort == {"http://proxy:8080"}

\* What the claim says of the value getProxyConfig returned
ProxyConfigAsClaimed(proxy) ==
    IF ProxySupport = "off"
    THEN proxy.isFalse
    ELSE /\ ~proxy.isFalse
         /\ ("protocol" \in DOMAIN proxy.config) <=> (config["http.proxy"] # "")
         /\ ("host" \in DOMAIN proxy.config) <=> (config["http.proxy"] # "")
         /\ ("port" \in DOMAIN proxy.config) <=> (config["http.proxy"] \in UrlsNamingPort)
         /\ DOMAIN proxy.config \subseteq {"protocol", "host", "port"}
         /\ config["http.proxy"] = "http://proxy:8080" =>
               proxy.config = [protocol |-> "http:", host |-> "proxy:8080", port |-> 8080]

\* getGoCenterModules calls getProxyConfig in its first step
ProxyConfigRequested(f) == f.op = "getGoCenterModules" /\ f.pc # "idle"

\* C14 as stated: whenever the toggle is not 'off', getProxyConfig returns a
\* configuration object, whatever the proxy url.
C14_Original ==
    \A t \in Tasks :
        ProxyConfigRequested(task[t]) =>
            /\ task[t].client # NoClient
            /\ ProxyConfigAsClaimed(task[t].client.proxy)

\* C14: getProxyConfig returns false exactly when http.proxySupport is 'off',
\* whatever the proxy url; for any other toggle and an unset or parseable
\* url it returns an object with protocol and host iff the url is set and
\* port only when the url names one; for any other toggle and a url that
\* does not parse it throws a TypeError and no client is built.
C14_ProxyConfigByToggle ==
    \A t \in Tasks :
        /\ task[t].client # NoClient => ProxyConfigAsClaimed(task[t].client.proxy)
        /\ ProxyConfigRequested(task[t]) =>
              IF ProxySupport # "off" /\ config["http.proxy"] # "" /\ ~UrlIsValid(config["http.proxy"])
              THEN task[t].client = NoClient /\ task[t].pc = "done" /\ task[t].ret = "TypeError"
              ELSE task[t].client # NoClient

\* C14 witness: with the toggle on, a url naming the default port gave a
\* configuration object with protocol and host and no port.
C14_Witness ==
    \E t \in Tasks :
        /\ ProxyConfigRequested(task[t])
        /\ task[t].client # NoClient
        /\ config["http.proxySupport"] = "on"
        /\ config["http.proxy"] = "http://proxy:80"
        /\ DOMAIN task[t].client.proxy.config = {"protocol", "host"}


\* The metadata client configuration as a function of the settings alone
MetadataClientFor(settings) ==
    LET off == settings["http.proxySupport"] = "off"
        auth == settings["http.proxyAuthorization"]
        userAgent == [h \in {"User-Agent"} |-> USER_AGENT]
    IN [headers |-> IF ~off /\ auth # ""
                    THEN [h \in {"User-Agent", "Proxy-Authorization"} |->
                             IF h = "User-Agent" THEN USER_AGENT ELSE auth]
                    ELSE userAgent,
        proxy |-> IF off THEN [isFalse |-> TRUE, config |-> EmptyObject]
                  ELSE [isFalse |-> FALSE,
                        config |-> CASE settings["http.proxy"] = "" -> EmptyObject
                                     [] settings["http.proxy"] = "http://proxy:8080" ->
                                           [protocol |-> "http:", host |-> "proxy:8080", port |-> 8080]]]

\* C15: every step of getGoCenterModules leaves the in-memory credentials,
\* the durable storage and the vault as they were, its only external call is
\* the metadata request (no read, no prompt), and the client it builds is
\* the one determined by the settings alone: User-Agent, the proxy config
\* and the conditional Proxy-Authorization header, with no credential field.
C15_MetadataClientIndependent ==
    [][\A t \in Tasks :
          (task'[t].op = "getGoCenterModules" /\ task'[t] # task[t]) =>
              /\ memory' = memory
              /\ stores' = stores
              /\ \A i \in 1..Len(task'[t].trace) :
                     task'[t].trace[i].call = "getMetadataForModules"
              /\ task'[t].client # NoClient =>
                     /\ task'[t].client = MetadataClientFor(config)
                     /\ DOMAIN task'[t].client = {"headers", "proxy"}
                     /\ \A i \in 1..Len(task'[t].trace) :
                            task'[t].trace[i].client = MetadataClientFor(config)]_vars

\* C15 witness: getGoCenterModules returned while the three credentials
\* were set in memory, and its client has no credential field.
C15_Witness ==
    \E t \in Tasks :
        /\ task[t].op = "getGoCenterModules"
        /\ task[t].pc = "done"
        /\ task[t].ret = "components_metadata"
        /\ _url # "" /\ _username # "" /\ _password # ""
        /\ "password" \notin DOMAIN task[t].client


\* The proxy url is set, does not parse, and is read (the toggle is not 'off')
ProxyUrlRejected ==
    ProxySupport # "off" /\ config["http.proxy"] # "" /\ ~UrlIsValid(config["http.proxy"])

\* Frame g has built the primary client from the credentials given and
\* issued the component-summary request with it
SummaryRequested(g, url, username, password) ==
    /\ g.pc = "summary"
    /\ g.client # NoClient
    /\ g.client.serverUrl = url
    /\ g.client.username = username
    /\ g.client.password = password
    /\ Last(g.trace) = [call |-> "summary.component", client |-> g.client]

\* Frame g has ended with a TypeError and no client
ThrewTypeError(g) == g.pc = "done" /\ g.ret = "TypeError" /\ g.client = NoClient

\* C16 as stated: getComponents always issues the component-summary request,
\* so it ends only after that request.
C16_Original ==
    [][\A t \in Tasks :
          (task'[t].op = "getComponents" /\ task'[t] # task[t] /\ task'[t].pc = "done")
              => (task[t].op = "getComponents" /\ task[t].pc = "summary")]_vars

\* C16: getComponents calls populateCredentials(false) if and only if
\* areCredentialsSet() is false on entry and never invokes checkConnection
\* nor prompts; unless populateCredentials throws (no extension context yet)
\* or the proxy url does not parse, it then builds a primary client from the
\* current in-memory credentials and issues the component-summary request,
\* whatever population returned; in those two cases it ends with a TypeError
\* and no client.
C16_GetComponentsPopulatesIffUnset ==
    [][\A t \in Tasks :
          LET f == task[t]
              g == task'[t]
              requested == IF ProxyUrlRejected THEN ThrewTypeError(g)
                           ELSE SummaryRequested(g, _url', _username', _password')
          IN (g.op = "getComponents" /\ g # f) =>
                /\ CallsOf(g, {"checkConnection", "showInputBox"}) = << >>
                /\ (Callable(t) /\ areCredentialsSet) =>
                       /\ requested
                       /\ CallsOf(g, {"globalState.get", "keytar.getPassword"}) = << >>
                /\ (Callable(t) /\ ~areCredentialsSet) =>
                       IF _context
                       THEN /\ g.pc = "retrieveUrl"
                            /\ g.trace = << [call |-> "globalState.get", key |-> XRAY_URL_KEY] >>
                       ELSE ThrewTypeError(g) /\ g.trace = << >>
                /\ (f.op = "getComponents" /\ f.pc \in PopulatePcs) =>
                       g.pc \in PopulatePcs \cup {"populated"}
                /\ (f.op = "getComponents" /\ f.pc = "populated") => requested
                /\ g.pc = "done" =>
                       \/ f.op = "getComponents" /\ f.pc = "summary"
                       \/ ThrewTypeError(g)]_vars

\* C16 witness: population failed (the stored username is missing, so the
\* vault was never read) and getComponents still issued the request, with a
\* client built from the unset credentials.
C16_Witness ==
    \E t \in Tasks :
        /\ task[t].op = "getComponents"
        /\ SummaryRequested(task[t], "", "", "")
        /\ Len(task[t].trace) = 3
        /\ task[t].trace[2].call = "globalState.get"
        /\ GlobalStateGet(XRAY_USERNAME_KEY) = ""


\* The (url, username) pair durable storage holds
StoredPair == <<GlobalStateGet(XRAY_URL_KEY), GlobalStateGet(XRAY_USERNAME_KEY)>>

\* The vault key of a pair
VaultKey(pair) == <<SERVICE_ID, createAccountId(pair[1], pair[2])>>

\* C17 as stated: the vault key a populate lookup used belongs to no pair
\* other than the one it looked up; and when the vault holds only the entry
\* of the stored pair, a lookup connect() makes for a different pair
\* returns no password.
C17_Original ==
    \A t \in Tasks :
        LET f == task[t]
            lookups == CallsOf(f, {"keytar.getPassword"})
        IN /\ \A i \in 1..Len(lookups) :
                  \A u \in Urls, n \in Usernames :
                      <<u, n>> # <<f.url, f.username>> =>
                          createAccountId(u, n) # lookups[i].account
           /\ ( /\ f.op = "connect"
                /\ f.pc = "promptPassword"
                /\ StoredPair \in Urls \X Usernames
                /\ DOMAIN vault = {VaultKey(StoredPair)}
                /\ <<f.url, f.username>> # StoredPair )
              => f.password = ""


\* The tasks between their call and its completion
InFlight == {t \in Tasks : task[t].pc \notin {"idle", "done"}}

\* C18: in every reachable state of interleaved calls, suspension points
\* included, the in-memory credentials are all three empty or all three
\* non-empty, and areCredentialsSet() is true exactly when any one of them
\* is non-empty.
C18_TripleAllOrNothing ==
    /\ \/ _url = "" /\ _username = "" /\ _password = ""
       \/ _url # "" /\ _username # "" /\ _password # ""
    /\ areCredentialsSet <=> (_url # "" \/ _username # "" \/ _password # "")

\* C18 witness: two calls are in flight; one is suspended inside
\* populateCredentials with a url of its own resolved, while the fields
\* hold the triple another populateCredentials assigned.
C18_Witness ==
    /\ InFlight = Tasks
    /\ areCredentialsSet
    /\ \E t \in Tasks :
           /\ task[t].pc \in {"promptUsername", "retrievePassword", "promptPassword"}
           /\ task[t].url # _url
           /\ \E o \in Tasks \ {t} : task[o].op \in {"connect", "getComponents"}


\* Every write frame f has issued carries the credentials of the client
\* its checkConnection validated
WritesValidatedTriple(f) ==
    \A i \in 1..Len(f.trace) :
        LET e == f.trace[i] IN
        /\ (e.call = "globalState.update" /\ e.key = XRAY_URL_KEY) =>
               e.value = f.client.serverUrl
        /\ (e.call = "globalState.update" /\ e.key = XRAY_USERNAME_KEY) =>
               e.value = f.client.username
        /\ e.call = "keytar.setPassword" =>
               /\ e.password = f.client.password
               /\ e.account = createAccountId(f.client.serverUrl, f.client.username)

\* C19 as stated: when two connect() calls interleave at their suspension
\* points, every url, username and password a connect() writes to durable
\* storage and the vault is the one its own validated client was built from.
C19_Original ==
    \A t \in Tasks :
        ( /\ \A o \in Tasks : task[o].op = "connect"
          /\ CheckResult(task[t], TRUE) )
        => WritesValidatedTriple(task[t])


\* The triple the stores hold: the stored pair and the vault entry under the
\* key storePassword uses for that pair
StoredTriple ==
    <<StoredPair[1], StoredPair[2],
      KeytarGetPassword(SERVICE_ID, Sha256Hex(StoredPair[1] \o StoredPair[2]))>>

\* C20: a connect() that returns true leaves the stores holding the triple
\* (u, n, p) it populated; no step other than connect()'s writes the stores,
\* a reload of the window included; and an activate() that completes over
\* stores holding a complete triple assigns exactly that triple to the
\* fields without prompting, so areCredentialsSet() is true, reading the
\* vault under the key storePassword wrote.
C20_PersistRestoreRoundTrip ==
    [][\A t \in Tasks :
          LET f == task[t]
              g == task'[t]
          IN g # f =>
                /\ g.op # "connect" => UNCHANGED stores
                /\ (g.op = "connect" /\ g.pc = "done" /\ g.ret = "true") =>
                       /\ AllResolved(g)
                       /\ StoredTriple' = <<g.url, g.username, g.password>>
                       /\ Last(Writes(g)).account = Sha256Hex(g.url \o g.username)
                /\ ( /\ g.op = "activate" /\ g.pc = "done"
                     /\ \A i \in 1..3 : StoredTriple[i] # "" ) =>
                       /\ <<_url', _username', _password'>> = StoredTriple
                       /\ areCredentialsSet'
                       /\ CallsOf(g, {"showInputBox"}) = << >>
                       /\ CallsOf(g, {"keytar.getPassword"}) =
                              << [call |-> "keytar.getPassword", service |-> SERVICE_ID,
                                  account |-> Sha256Hex(StoredPair[1] \o StoredPair[2])] >>
                       /\ g.ret = "this"]_vars

\* C20 witness: activate() has completed without a prompt and the fields
\* hold the complete triple of the stores.
C20_Witness ==
    \E t \in Tasks :
        /\ task[t].op = "activate"
        /\ task[t].pc = "done"
        /\ CallsOf(task[t], {"showInputBox"}) = << >>
        /\ areCredentialsSet
        /\ <<_url, _username, _password>> = StoredTriple

=============================================================================
